---- MODULE Spec2Model ----
(***************************************************************************)
(* WeightDropLayerNormBasicLSTMCell (open_seq2seq/parts/rnns/weight_drop.py) *)
(* as a state machine: a caller constructs the cell, then calls it step by *)
(* step; the parameters live in the framework's variable store.            *)
(*                                                                         *)
(* Numbers are fixed point: the integer n stands for n / One.  Tensors of  *)
(* rank 2 are sequences of rows, parameter vectors are one-row tensors.    *)
(***************************************************************************)
EXTENDS Integers, Sequences, FiniteSets, TLC

VARIABLES
  args,      \* the arguments the caller passes to __init__
  cell,      \* the fields __init__ assigns (self._...)
  status,    \* "unbuilt", "ok" (constructed) or "ValueError" (__init__ raised)
  store,     \* the variable store of the cell's scope: name -> value
  built,     \* the cell has completed a call (later calls reuse its scope)
  ncalls,    \* number of calls made so far
  err,       \* outcome of the last call: "none" or "ValueError"
  inputs,    \* the input tensor of the last call
  state,     \* the state pair (c, h) passed to the last call
  masks,     \* what the random generator drew in the last call (W, U, g)
  new_h,     \* the output the last call returned
  new_state, \* the state pair the last call returned
  ops        \* the operations the last call ran, in order

vars == <<args, cell, status, store, built, ncalls, err, inputs, state,
          masks, new_h, new_state, ops>>

-----------------------------------------------------------------------------
\* Bounds of the model.
MaxUnits == 2
MaxBatch == 2
MaxDim == 2
MaxCalls == 2
MaxInit == 1
MaxDraw == 1
MaxOverrides == 2

-----------------------------------------------------------------------------
\* Fixed-point numbers.
One == 2 ^ 4
Half == One \div 2

Max(a, b) == IF a >= b THEN a ELSE b
Min(a, b) == IF a <= b THEN a ELSE b

\* Division rounding toward zero (b > 0).
Div(a, b) == IF a >= 0 THEN a \div b ELSE -((-a) \div b)

Mul(a, b) == Div(a * b, One)

\* The integer square root.
ISqrt(v) == CHOOSE r \in 0..v : r * r <= v /\ (r + 1) * (r + 1) > v

\* tf.tanh and tf.sigmoid on fixed-point numbers: piecewise linear, exact at
\* 0 (tanh 0 = 0, sigmoid 0 = 1/2), odd / point symmetric, monotone, saturating.
Tanh(x) == Max(-One, Min(One, x))
Sigmoid(x) == Max(0, Min(One, Half + Div(x, 4)))

RECURSIVE SumSeq(_)
SumSeq(s) == IF s = <<>> THEN 0 ELSE Head(s) + SumSeq(Tail(s))

-----------------------------------------------------------------------------
\* Tensors.
Rows(t) == Len(t)
Cols(t) == IF t = <<>> THEN 0 ELSE Len(t[1])
Shape(t) == <<Rows(t), Cols(t)>>

\* The vector of the first n entries of v, the tensor of the first r rows and
\* c columns of t, as explicit sequences.
RECURSIVE Vector(_, _)
Vector(v, n) == IF n = 0 THEN <<>> ELSE Append(Vector(v, n - 1), v[n])
RECURSIVE Tensor(_, _, _)
Tensor(t, r, c) ==
  IF r = 0 THEN <<>> ELSE Append(Tensor(t, r - 1, c), Vector(t[r], c))

Fill(r, c, v) == Tensor([i \in 1..r |-> [j \in 1..c |-> v]], r, c)
Zeros(r, c) == Fill(r, c, 0)

\* A family of tensor values: k = 0 is the zero tensor.
Pattern(r, c, k) ==
  Tensor([i \in 1..r |-> [j \in 1..c |-> k * (((i + 2 * j) % 3) - 1) * Half]],
         r, c)

\* Elementwise tanh, sigmoid, sum and product.
TTanh(t) ==
  Tensor([i \in 1..Rows(t) |-> [j \in 1..Cols(t) |-> Tanh(t[i][j])]],
         Rows(t), Cols(t))
TSigmoid(t) ==
  Tensor([i \in 1..Rows(t) |-> [j \in 1..Cols(t) |-> Sigmoid(t[i][j])]],
         Rows(t), Cols(t))
TAdd(a, b) ==
  Tensor([i \in 1..Rows(a) |-> [j \in 1..Cols(a) |-> a[i][j] + b[i][j]]],
         Rows(a), Cols(a))
TMul(a, b) ==
  Tensor([i \in 1..Rows(a) |-> [j \in 1..Cols(a) |-> Mul(a[i][j], b[i][j])]],
         Rows(a), Cols(a))
TAddScalar(a, s) ==
  Tensor([i \in 1..Rows(a) |-> [j \in 1..Cols(a) |-> a[i][j] + s]],
         Rows(a), Cols(a))

\* tf.concat(.., 1) and tf.concat(.., 0)
ConcatCols(a, b) ==
  Tensor([i \in 1..Rows(a) |-> a[i] \o b[i]], Rows(a), Cols(a) + Cols(b))
ConcatRows(a, b) == a \o b

\* tf.split along axis 0 / axis 1: the block of n rows (columns) after `from`.
RowBlock(t, from, n) == Tensor([i \in 1..n |-> t[from + i]], n, Cols(t))
ColBlock(t, from, n) ==
  Tensor([i \in 1..Rows(t) |-> [j \in 1..n |-> t[i][from + j]]], Rows(t), n)

MatMul(a, b) ==
  Tensor([i \in 1..Rows(a) |-> [j \in 1..Cols(b) |->
            SumSeq(Vector([k \in 1..Cols(a) |-> Mul(a[i][k], b[k][j])],
                          Cols(a)))]],
         Rows(a), Cols(b))

\* tf.nn.bias_add: the one-row tensor b is added to every row.
BiasAdd(a, b) ==
  Tensor([i \in 1..Rows(a) |-> [j \in 1..Cols(a) |-> a[i][j] + b[1][j]]],
         Rows(a), Cols(a))

-----------------------------------------------------------------------------
\* Python values.
None == "None"

PyFloat(v) == [kind |-> "float", val |-> v]
PyInt(v) == [kind |-> "int", val |-> v * One]
PyTensor(v) == [kind |-> "tensor", val |-> v]
NoProb == [kind |-> "none", val |-> 0]

\* isinstance(p, float)
IsFloat(p) == p.kind = "float"

\* Keep-probabilities a caller passes: the floats 1.0, 0.5 and 1.5, the
\* integer 1, and a scalar tensor whose value at run time is 0.5.
KeepProbs ==
  {PyFloat(One), PyFloat(Half), PyFloat(One + Half), PyInt(1), PyTensor(Half)}

Activations == {"tanh", "sigmoid"}
ForgetBiases == {0, One}
NormGains == {One}
NormShifts == {0}
Seeds == {None, "1234"}
Dtypes == {None, "float32"}
Reuses == {None, "True"}

Args ==
  [num_units : 1..MaxUnits,
   forget_bias : ForgetBiases,
   activation : Activations,
   layer_norm : BOOLEAN,
   norm_gain : NormGains,
   norm_shift : NormShifts,
   recurrent_keep_prob : KeepProbs,
   input_weight_keep_prob : KeepProbs,
   recurrent_weight_keep_prob : KeepProbs,
   dropout_seed : Seeds,
   weight_variational : BOOLEAN,
   reuse : Reuses,
   dtype : Dtypes]

\* The defaults of __init__'s signature (num_units has none: the smallest).
Defaults ==
  [num_units |-> 1,
   forget_bias |-> One,
   activation |-> "tanh",
   layer_norm |-> TRUE,
   norm_gain |-> One,
   norm_shift |-> 0,
   recurrent_keep_prob |-> PyFloat(One),
   input_weight_keep_prob |-> PyFloat(One),
   recurrent_weight_keep_prob |-> PyFloat(One),
   dropout_seed |-> None,
   weight_variational |-> FALSE,
   reuse |-> None,
   dtype |-> None]

\* The arguments a caller overrides.
Overrides(a) == {f \in DOMAIN Defaults : a[f] # Defaults[f]}

-----------------------------------------------------------------------------
\* The operations a call runs are logged: which operation, on what (name),
\* with which keep-probability and seed (dropout only), and its result.
Op(op, name, val) ==
  [op |-> op, name |-> name, p |-> NoProb, seed |-> None, val |-> val]

\* tf.nn.dropout(x, keep_prob, seed): the entries the draw m keeps are scaled
\* by 1 / keep_prob, the others are zeroed.  binary = floor(keep_prob + u),
\* u uniform in [0, 1): with keep_prob >= 1 every entry is kept.
Draws == 0..MaxDraw
Kept(m, i, j, c) == ((3 - m) \div (2 ^ (((i - 1) * c + j) % 2))) % 2 = 1
TfDropout(x, keep_prob, seed, m) ==
  LET val == Tensor([i \in 1..Rows(x) |-> [j \in 1..Cols(x) |->
                       IF keep_prob.val >= One \/ Kept(m, i, j, Cols(x))
                       THEN Div(x[i][j] * One, keep_prob.val) ELSE 0]],
                    Rows(x), Cols(x))
  IN [val |-> val,
      op |-> [op |-> "tf.nn.dropout", name |-> "", p |-> keep_prob,
              seed |-> seed, val |-> val]]

\* tf.contrib.layers.layer_norm on one example: standardise across the width,
\* then rescale by gamma and shift by beta.
LayerNormRow(row, gamma, beta) ==
  LET n == Len(row)
      mean == Div(SumSeq(row), n)
      d == Vector([k \in 1..n |-> row[k] - mean], n)
      var == Div(SumSeq(Vector([k \in 1..n |-> d[k] * d[k]], n)), n)
      std == Max(1, ISqrt(var))
  IN Vector([k \in 1..n |->
               Mul(IF d[k] = 0 THEN 0 ELSE Div(d[k] * One, std), gamma[k])
               + beta[k]], n)

-----------------------------------------------------------------------------
\* __init__: the fields assigned, and the check of lines 72-75.
Fields(a) ==
  [num_units |-> a.num_units,
   activation |-> a.activation,
   forget_bias |-> a.forget_bias,
   recurrent_keep_prob |-> a.recurrent_keep_prob,
   input_weight_keep_prob |-> a.input_weight_keep_prob,
   recurrent_weight_keep_prob |-> a.recurrent_weight_keep_prob,
   dropout_seed |-> a.dropout_seed,
   layer_norm |-> a.layer_norm,
   norm_gain |-> a.norm_gain,
   norm_shift |-> a.norm_shift,
   reuse |-> a.reuse,
   weight_variational |-> a.weight_variational,
   dtype |-> a.dtype,
   input_weight_noise |-> None,
   recurrent_weight_noise |-> None]

\* A variant of the check that raises whenever dtype is missing.
InitRaisesWithoutDtype(a) == a.dtype = None
InitRaises(a) == a.weight_variational /\ a.dtype = None

state_size(c) == <<c.num_units, c.num_units>>
\* A variant of output_size that reports the projection width.
OutputSizeProjection(c) == 4 * c.num_units
output_size(c) == c.num_units

\* Variants of _should_drop: without the isinstance test; with <= for <.
ShouldDropBelowOnly(p) == p.val < One
ShouldDropUpToOne(p) == (~IsFloat(p)) \/ p.val <= One
\* _should_drop
should_drop(p) == (~IsFloat(p)) \/ p.val < One

\* A variant of _variational_dropout that passes no seed.
VariationalUnseeded(c, values, noise, keep_prob, m) ==
  TfDropout(values, keep_prob, None, m)
\* _variational_dropout: the noise is not used.
variational_dropout(c, values, noise, keep_prob, m) ==
  TfDropout(values, keep_prob, c.dropout_seed, m)

\* _dropout
dropout(c, values, dropout_noise, keep_prob, m) ==
  IF ~c.weight_variational
  THEN TfDropout(values, keep_prob, c.dropout_seed, m)
  ELSE variational_dropout(c, values, dropout_noise, keep_prob, m)

-----------------------------------------------------------------------------
\* The variable store (tf.get_variable under the cell's variable scope).
EmptyStore == <<>>
Has(st, name) == name \in DOMAIN st

\* The scope each gate's normalization parameters live under (call).
Scope ==
  [i |-> "input", j |-> "transform", f |-> "forget", o |-> "output",
   c |-> "state"]

Gamma(scope) == scope \o "/gamma"
Beta(scope) == scope \o "/beta"

\* A request to the store: name, shape, and the value a new variable gets.
Req(name, shape, init) == [name |-> name, shape |-> shape, init |-> init]

\* _norm: the two variables it declares under `scope`.
norm_vars(c, scope, width) ==
  <<Req(Gamma(scope), <<1, width>>, Fill(1, width, c.norm_gain)),
    Req(Beta(scope), <<1, width>>, Fill(1, width, c.norm_shift))>>

\* A variant of linear_vars that declares the bias whatever layer_norm is.
LinearVarsWithBias(c, proj_size, kinit, binit) ==
  LET out_size == 4 * c.num_units
  IN <<Req("kernel", <<proj_size, out_size>>,
           Pattern(proj_size, out_size, kinit)),
       Req("bias", <<1, out_size>>, Pattern(1, out_size, binit))>>

\* _linear: kernel, and bias unless layer_norm.  No initializer is given:
\* the scope's initializer draws the values (kinit, binit).
linear_vars(c, proj_size, kinit, binit) ==
  LET out_size == 4 * c.num_units
  IN <<Req("kernel", <<proj_size, out_size>>,
           Pattern(proj_size, out_size, kinit))>>
     \o (IF ~c.layer_norm
         THEN <<Req("bias", <<1, out_size>>, Pattern(1, out_size, binit))>>
         ELSE <<>>)

\* call: every variable a call declares, in the order it declares them.
call_vars(c, proj_size, kinit, binit) ==
  linear_vars(c, proj_size, kinit, binit)
  \o (IF c.layer_norm
      THEN norm_vars(c, Scope.i, c.num_units)
           \o norm_vars(c, Scope.j, c.num_units)
           \o norm_vars(c, Scope.f, c.num_units)
           \o norm_vars(c, Scope.o, c.num_units)
           \o norm_vars(c, Scope.c, c.num_units)
      ELSE <<>>)

\* A variant that reuses the scope only on reuse=True.
ReusingFlagOnly(c, b) == c.reuse = "True"
\* Whether the cell's scope is entered with reuse: the base layer reuses the
\* scope once the cell is built, or when the cell was given reuse=True.
Reusing(c, b) == b \/ c.reuse = "True"

\* tf.get_variable: with reuse the variable must exist with the requested
\* shape; without reuse it must not exist, and is created.
GetVariable(acc, r, reuse) ==
  IF acc.err # "none" THEN acc
  ELSE IF Has(acc.store, r.name)
       THEN IF reuse /\ Shape(acc.store[r.name]) = r.shape
            THEN acc
            ELSE [acc EXCEPT !.err = "ValueError"]
       ELSE IF reuse
            THEN [acc EXCEPT !.err = "ValueError"]
            ELSE [acc EXCEPT !.store = acc.store @@ (r.name :> r.init)]

RECURSIVE Resolve(_, _, _)
Resolve(acc, reqs, reuse) ==
  IF reqs = <<>> THEN acc
  ELSE Resolve(GetVariable(acc, Head(reqs), reuse), Tail(reqs), reuse)

\* The store another cell of the same configuration, called on inputs of
\* width d, has left under the scope.
PriorStore(a, d) ==
  Resolve([store |-> EmptyStore, err |-> "none"],
          call_vars(Fields(a), d + a.num_units, 1, 1), FALSE).store

-----------------------------------------------------------------------------
\* A variant of the join with the blocks in the other order.
JoinSwapped(w, u) == ConcatRows(u, w)
\* _linear, line 138
JoinWeights(w, u) == ConcatRows(w, u)

\* _norm
norm(c, st, inp, scope) ==
  Tensor([b \in 1..Rows(inp) |->
            LayerNormRow(inp[b], st[Gamma(scope)][1], st[Beta(scope)][1])],
         Rows(inp), Cols(inp))

\* _linear, lines 133-136: a block of the kernel, dropped under its
\* keep-probability or left as it is.
weight_block(c, name, values, noise, keep_prob, m) ==
  IF should_drop(keep_prob)
  THEN LET d == dropout(c, values, noise, keep_prob, m)
       IN [val |-> d.val, ops |-> <<[d.op EXCEPT !.name = name]>>]
  ELSE [val |-> values, ops |-> <<>>]

\* _linear, lines 140-144
linear_out(c, st, a, w0, u0, w, u, wts, prod) ==
  [out |-> IF ~c.layer_norm THEN BiasAdd(prod, st["bias"]) ELSE prod,
   ops |-> <<Op("get_variable", "kernel", st["kernel"]),
             Op("split", "w", w0), Op("split", "u", u0)>>
           \o w.ops \o u.ops
           \o <<Op("concat", "weights", wts), Op("matmul", "out", prod)>>
           \o (IF ~c.layer_norm
               THEN <<Op("get_variable", "bias", st["bias"]),
                      Op("bias_add", "out", BiasAdd(prod, st["bias"]))>>
               ELSE <<>>)]

\* _linear, lines 138-140
linear_matmul(c, st, a, w0, u0, w, u, wts) ==
  linear_out(c, st, a, w0, u0, w, u, wts, MatMul(a, wts))

linear_join(c, st, a, w0, u0, w, u) ==
  linear_matmul(c, st, a, w0, u0, w, u, JoinWeights(w.val, u.val))

\* _linear, lines 131-136
linear_split(c, st, a, m, w0, u0) ==
  linear_join(c, st, a, w0, u0,
              weight_block(c, "w", w0, c.input_weight_noise,
                           c.input_weight_keep_prob, m[1]),
              weight_block(c, "u", u0, c.recurrent_weight_noise,
                           c.recurrent_weight_keep_prob, m[2]))

\* _linear.  m = the draws for W and U.
linear(c, st, a, inputs_shape, h_shape, m) ==
  linear_split(c, st, a, m,
               RowBlock(st["kernel"], 0, inputs_shape),
               RowBlock(st["kernel"], inputs_shape, h_shape))

\* self._activation
Activation(c, t) ==
  IF c.activation = "tanh" THEN TTanh(t) ELSE TSigmoid(t)

\* A variant of the update that adds the candidate to the input gate.
CellUpdateSum(c, cc, f, i, g) ==
  TAdd(TMul(cc, TSigmoid(TAddScalar(f, c.forget_bias))),
       TAdd(TSigmoid(i), g))
\* call, lines 188-189
CellUpdate(c, cc, f, i, g) ==
  TAdd(TMul(cc, TSigmoid(TAddScalar(f, c.forget_bias))),
       TMul(TSigmoid(i), g))

\* call, line 192
Hidden(c, new_c, o) == TMul(Activation(c, new_c), TSigmoid(o))

\* A variant that returns the cell memory as the output.
ReturnedCell(nc, nh) == [out |-> nc, state |-> [c |-> nc, h |-> nh]]
\* call, lines 194-195: the output and the new state pair
Returned(nc, nh) == [out |-> nh, state |-> [c |-> nc, h |-> nh]]

\* call, line 176: the k-th of the four equal blocks of columns.
Gate(t, k) == ColBlock(t, k * (Cols(t) \div 4), Cols(t) \div 4)
split_gates(t) ==
  [i |-> Gate(t, 0), j |-> Gate(t, 1), f |-> Gate(t, 2), o |-> Gate(t, 3)]

\* call, lines 178-182
norm_gates(c, st, g) ==
  IF c.layer_norm
  THEN [i |-> norm(c, st, g.i, Scope.i), j |-> norm(c, st, g.j, Scope.j),
        f |-> norm(c, st, g.f, Scope.f), o |-> norm(c, st, g.o, Scope.o)]
  ELSE g

\* call, lines 185-186
candidate(c, g0, m) ==
  IF should_drop(c.recurrent_keep_prob)
  THEN LET d == TfDropout(g0, c.recurrent_keep_prob, c.dropout_seed, m)
       IN [val |-> d.val, ops |-> <<[d.op EXCEPT !.name = "g"]>>]
  ELSE [val |-> g0, ops |-> <<>>]

\* call, lines 190-191
state_norm(c, st, c1) ==
  IF c.layer_norm THEN norm(c, st, c1, Scope.c) ELSE c1

\* call, lines 194-195, with the operations run
call_return(c, a, lin, g0, n, g1, g, c1, nc, nh) ==
  [ret |-> Returned(nc, nh),
   ops |-> <<Op("concat", "args", a)>>
           \o lin.ops
           \o <<Op("split", "i", g0.i), Op("split", "j", g0.j),
                Op("split", "f", g0.f), Op("split", "o", g0.o)>>
           \o (IF c.layer_norm
               THEN <<Op("norm", Scope.i, n.i), Op("norm", Scope.j, n.j),
                      Op("norm", Scope.f, n.f), Op("norm", Scope.o, n.o)>>
               ELSE <<>>)
           \o <<Op("activation", "g", g1)>>
           \o g.ops
           \o <<Op("cell_update", "new_c", c1)>>
           \o (IF c.layer_norm THEN <<Op("norm", Scope.c, nc)>> ELSE <<>>)
           \o <<Op("hidden", "new_h", nh)>>]

\* call, line 192
call_hidden(c, a, lin, g0, n, g1, g, c1, nc) ==
  call_return(c, a, lin, g0, n, g1, g, c1, nc, Hidden(c, nc, n.o))

\* call, lines 190-191
call_state(c, st, a, lin, g0, n, g1, g, c1) ==
  call_hidden(c, a, lin, g0, n, g1, g, c1, state_norm(c, st, c1))

\* call, lines 188-189
call_update(c, st, s, a, lin, g0, n, g1, g) ==
  call_state(c, st, a, lin, g0, n, g1, g, CellUpdate(c, s.c, n.f, n.i, g.val))

\* call, lines 184-186
call_candidate(c, st, s, mg, a, lin, g0, n, g1) ==
  call_update(c, st, s, a, lin, g0, n, g1, candidate(c, g1, mg))

call_activation(c, st, s, mg, a, lin, g0, n) ==
  call_candidate(c, st, s, mg, a, lin, g0, n, Activation(c, n.j))

\* call, lines 178-182
call_norm(c, st, s, mg, a, lin, g0) ==
  call_activation(c, st, s, mg, a, lin, g0, norm_gates(c, st, g0))

\* call, line 176
call_split(c, st, s, mg, a, lin) ==
  call_norm(c, st, s, mg, a, lin, split_gates(lin.out))

\* call, line 173
call_linear(c, st, x, s, m, a) ==
  call_split(c, st, s, m[3], a, linear(c, st, a, Cols(x), Cols(s.h), m))

\* call.  s = the state pair, m = the draws for W, U and g.
call(c, st, x, s, m) == call_linear(c, st, x, s, m, ConcatCols(x, s.h))

-----------------------------------------------------------------------------
NoTensor == <<>>
NoState == [c |-> NoTensor, h |-> NoTensor]

\* The callers explored depart from the defaults (and from an empty scope) in
\* at most MaxOverrides ways; `fixed` are arguments not counted.
Start(fixed) ==
  /\ args \in Args
  /\ store \in {EmptyStore, PriorStore(args, 1)}
  /\ Cardinality(Overrides(args) \ fixed)
       + (IF store = EmptyStore THEN 0 ELSE 1) <= MaxOverrides
  /\ cell = Fields(args)
  /\ status = "unbuilt"
  /\ built = FALSE
  /\ ncalls = 0
  /\ err = "none"
  /\ inputs = NoTensor
  /\ state = NoState
  /\ masks = <<0, 0, 0>>
  /\ new_h = NoTensor
  /\ new_state = NoState
  /\ ops = <<>>

Init == Start({})

\* Callers that ask for weight-variational dropout and give the dtype.
InitVariational ==
  /\ Start({"weight_variational", "dtype"})
  /\ args.weight_variational
  /\ args.dtype # None

\* cell = WeightDropLayerNormBasicLSTMCell(**args)
Construct ==
  /\ status = "unbuilt"
  /\ cell' = Fields(args)
  /\ status' = IF InitRaises(args) THEN "ValueError" ELSE "ok"
  /\ UNCHANGED <<args, store, built, ncalls, err, inputs, state, masks,
                 new_h, new_state, ops>>

\* The states a caller passes: the zero state (zero_state, from state_size),
\* or the state the previous call returned.
zero_state(c, B) ==
  [c |-> Zeros(B, state_size(c)[1]), h |-> Zeros(B, state_size(c)[2])]
StateArg(feedback, B) == IF feedback THEN new_state ELSE zero_state(cell, B)

\* The draws a dropout site takes: none when the site is skipped.
SiteDraws(p) == IF should_drop(p) THEN Draws ELSE {0}

\* new_h, new_state = cell(x, s)
Call ==
  /\ status = "ok"
  /\ ncalls < MaxCalls
  /\ \E B \in 1..MaxBatch, D \in 1..MaxDim, kx \in 0..MaxInit,
        feedback \in (IF Rows(new_state.h) = 0 THEN {FALSE} ELSE BOOLEAN),
        vinit \in (IF Has(store, "kernel") THEN {0} ELSE 0..MaxInit),
        mw \in SiteDraws(cell.input_weight_keep_prob),
        mu \in SiteDraws(cell.recurrent_weight_keep_prob),
        mg \in SiteDraws(cell.recurrent_keep_prob) :
       LET x == Pattern(B, D, kx)
           s == StateArg(feedback, B)
           m == <<mw, mu, mg>>
           got == Resolve([store |-> store, err |-> "none"],
                          call_vars(cell, D + cell.num_units, vinit, vinit),
                          Reusing(cell, built))
           res == call(cell, got.store, x, s, m)
       IN /\ feedback => (Rows(new_state.h) = B)
          /\ ncalls' = ncalls + 1
          /\ inputs' = x
          /\ state' = s
          /\ store' = got.store
          /\ err' = got.err
          /\ IF got.err = "none"
             THEN /\ built' = TRUE
                  /\ masks' = m
                  /\ new_h' = res.ret.out
                  /\ new_state' = res.ret.state
                  /\ ops' = res.ops
             ELSE /\ built' = built
                  /\ masks' = <<0, 0, 0>>
                  /\ new_h' = NoTensor
                  /\ new_state' = NoState
                  /\ ops' = <<>>
  /\ UNCHANGED <<args, cell, status>>

Next == Construct \/ Call

Spec == Init /\ [][Next]_vars
SpecVariational == InitVariational /\ [][Next]_vars

-----------------------------------------------------------------------------
\* Properties.

\* The last call returned (it raised nothing).
Called == status = "ok" /\ ncalls > 0 /\ err = "none"

\* Positions of the logged operations.
Where(op, name) == {k \in 1..Len(ops) : ops[k].op = op /\ ops[k].name = name}
Ran(op, name) == Where(op, name) # {}
At(op, name) == CHOOSE k \in Where(op, name) : TRUE
Val(op, name) == ops[At(op, name)].val
Before(a, b) == \A k \in a : \A l \in b : k < l

\* Dropout was applied to `target` with keep-probability p.
Dropped(target, p) ==
  \E k \in Where("tf.nn.dropout", target) : ops[k].p = p

\* The three keep-probabilities with the tensor each one guards.
Sites ==
  {<<cell.recurrent_keep_prob, "g">>,
   <<cell.input_weight_keep_prob, "w">>,
   <<cell.recurrent_weight_keep_prob, "u">>}

\* C1: construction ends in ValueError exactly when weight_variational is
\* true and dtype is None; it does so before any call is made, and every
\* other combination of arguments yields a constructed cell.
C1_ConstructionError ==
  /\ status # "unbuilt" =>
       (status = "ValueError" <=> (args.weight_variational /\ args.dtype = None))
  /\ status # "unbuilt" =>
       (status = "ok" <=> ~(args.weight_variational /\ args.dtype = None))
  /\ status = "ValueError" => (ncalls = 0 /\ ~built /\ ops = <<>>)

C1_Witness ==
  /\ status = "ValueError"
  /\ args.weight_variational
  /\ args.dtype = None

\* C2 as stated: dropout is applied to a target exactly when its
\* keep-probability is not the float 1.0.
C2_ActiveUnlessFloatOne ==
  Called => \A s \in Sites : Dropped(s[2], s[1]) <=> s[1] # PyFloat(One)

\* C2, amended: dropout is applied to a target exactly when its
\* keep-probability is not a float, or is a float below 1.0; it is skipped
\* for the float 1.0 and for every float above 1.0, and applied for the
\* integer 1 and for a tensor.
C2_ActiveBelowOneOrNonFloat ==
  Called =>
    \A s \in Sites :
      /\ Dropped(s[2], s[1]) <=> (s[1].kind # "float" \/ s[1].val < One)
      /\ Ran("tf.nn.dropout", s[2]) => Dropped(s[2], s[1])

C2_Witness ==
  /\ Called
  /\ cell.recurrent_keep_prob = PyInt(1)
  /\ Dropped("g", PyInt(1))
  /\ cell.input_weight_keep_prob = PyFloat(One + Half)
  /\ ~Ran("tf.nn.dropout", "w")

\* The scope is entered with reuse: the cell is built, or was given reuse=True.
ReuseEnabled == built \/ cell.reuse = "True"

\* The store holds a kernel of the shape a call on inputs of width d asks for.
KernelFits(d) ==
  /\ Has(store, "kernel")
  /\ Shape(store["kernel"]) = <<d + cell.num_units, 4 * cell.num_units>>

\* C3: a call made with reuse enabled creates no parameter and changes none:
\* the store is left as it was; when the kernel it finds has the shape it asks
\* for, the call resolves every name (it raises nothing) and every parameter
\* it reads has the value the store held before the call.
C3_ReuseIdempotent ==
  [][(ncalls' = ncalls + 1 /\ ReuseEnabled) =>
       /\ store' = store
       /\ built => built'
       /\ KernelFits(Cols(inputs')) => err' = "none"
       /\ err' = "none" =>
            \A k \in 1..Len(ops') :
              ops'[k].op = "get_variable" =>
                /\ Has(store, ops'[k].name)
                /\ ops'[k].val = store[ops'[k].name]]_vars

\* Two calls of a cell that was not given reuse: the first created the
\* parameters, the second ran on them.
C3_Witness ==
  /\ ncalls = 2
  /\ err = "none"
  /\ cell.reuse = None
  /\ ~cell.layer_norm
  /\ Ran("get_variable", "bias")

AllOnes == \A s \in Sites : s[1] = PyFloat(One)

\* C4: with every keep-probability the float 1.0 and layer_norm off, a call
\* runs no dropout on W, U or g, and what it returns is the same whatever the
\* random generator would draw.
C4_Deterministic ==
  (Called /\ AllOnes /\ ~cell.layer_norm) =>
    /\ \A k \in 1..Len(ops) : ops[k].op # "tf.nn.dropout"
    /\ masks = <<0, 0, 0>>
    /\ \A mw \in Draws, mu \in Draws, mg \in Draws :
         call(cell, store, inputs, state, <<mw, mu, mg>>).ret
           = [out |-> new_h, state |-> new_state]

C4_Witness ==
  /\ Called
  /\ AllOnes
  /\ ~cell.layer_norm
  /\ new_h # Zeros(Rows(new_h), Cols(new_h))

C6_Shapes ==
  /\ state_size(cell) = <<cell.num_units, cell.num_units>>
  /\ output_size(cell) = cell.num_units
  /\ Called =>
       LET B == Rows(inputs)
           N == cell.num_units
       IN /\ Shape(state.c) = <<B, N>>
          /\ Shape(state.h) = <<B, N>>
          /\ Shape(new_h) = <<B, output_size(cell)>>
          /\ Shape(new_h) = <<B, N>>
          /\ Shape(new_state.c) = <<B, N>>
          /\ Shape(new_state.h) = <<B, N>>

C6_Witness ==
  /\ Called
  /\ cell.layer_norm
  /\ should_drop(cell.recurrent_keep_prob)
  /\ Shape(inputs) = <<2, 2>>
  /\ Shape(new_h) = <<2, 1>>

\* C7: with layer_norm off, every keep-probability 1.0, forget_bias 1.0, tanh,
\* a zero kernel and a zero bias, a call on a zero input and a zero state
\* returns new_h = 0 and new_c = 0 (so the state fed back is zero again).
C7_ZeroFixedPoint ==
  (/\ Called
   /\ ~cell.layer_norm
   /\ AllOnes
   /\ cell.forget_bias = One
   /\ cell.activation = "tanh"
   /\ store["kernel"] = Zeros(Rows(store["kernel"]), Cols(store["kernel"]))
   /\ store["bias"] = Zeros(1, Cols(store["bias"]))
   /\ inputs = Zeros(Rows(inputs), Cols(inputs))
   /\ state = zero_state(cell, Rows(inputs)))
  => /\ new_h = Zeros(Rows(inputs), cell.num_units)
     /\ new_state.c = Zeros(Rows(inputs), cell.num_units)
     /\ new_state = zero_state(cell, Rows(inputs))

C7_Witness ==
  /\ Called
  /\ ncalls = 2
  /\ ~cell.layer_norm
  /\ AllOnes
  /\ cell.forget_bias = One
  /\ cell.activation = "tanh"
  /\ cell.num_units = 2
  /\ store["kernel"] = Zeros(Rows(store["kernel"]), Cols(store["kernel"]))
  /\ store["bias"] = Zeros(1, Cols(store["bias"]))
  /\ inputs = Zeros(Rows(inputs), Cols(inputs))
  /\ state = zero_state(cell, Rows(inputs))
  /\ new_state = zero_state(cell, Rows(inputs))

NormNames ==
  {"input/gamma", "input/beta", "transform/gamma", "transform/beta",
   "forget/gamma", "forget/beta", "output/gamma", "output/beta",
   "state/gamma", "state/beta"}

\* C8: with layer_norm off a call declares exactly kernel and bias, and adds
\* the bias after the projection; with layer_norm on it declares kernel, no
\* bias, and one gamma and one beta under each of the five distinct scopes
\* input, transform, forget, output, state, each gate normalized under its own.
C8_ParameterSet ==
  Called =>
    IF ~cell.layer_norm
    THEN /\ DOMAIN store = {"kernel", "bias"}
         /\ Ran("bias_add", "out")
         /\ Before(Where("matmul", "out"), Where("bias_add", "out"))
         /\ Val("bias_add", "out") = BiasAdd(Val("matmul", "out"), store["bias"])
         /\ \A k \in 1..Len(ops) : ops[k].op # "norm"
    ELSE /\ DOMAIN store = {"kernel"} \cup NormNames
         /\ Cardinality(DOMAIN store) = 11
         /\ ~Ran("bias_add", "out")
         /\ ~Ran("get_variable", "bias")
         /\ \A n \in {"input", "transform", "forget", "output", "state"} :
              /\ Cardinality(Where("norm", n)) = 1
              /\ Has(store, Gamma(n)) /\ Has(store, Beta(n))
         /\ Cardinality({k \in 1..Len(ops) : ops[k].op = "norm"}) = 5

C8_Witness ==
  /\ Called
  /\ cell.layer_norm
  /\ Cardinality(DOMAIN store) = 11
  /\ Cardinality(Where("norm", "forget")) = 1

\* A keep-probability below 1.0, or one that is no float constant.
Active(p) == p.kind # "float" \/ p.val < One

\* C9: the input block W (first D rows of the kernel) is dropped exactly when
\* input_weight_keep_prob is active, the recurrent block U (last num_units
\* rows) exactly when recurrent_weight_keep_prob is active, each with its own
\* draw; an inactive block is used unchanged; the blocks are joined W then U,
\* in the kernel's shape, before the projection.
C9_WeightDropBlocks ==
  Called =>
    LET D == Cols(inputs)
        N == cell.num_units
        kernel == store["kernel"]
        W == RowBlock(kernel, 0, D)
        U == RowBlock(kernel, D, N)
        used == Val("concat", "weights")
        pw == cell.input_weight_keep_prob
        pu == cell.recurrent_weight_keep_prob
    IN /\ Shape(used) = <<D + N, 4 * N>>
       /\ Shape(used) = Shape(kernel)
       /\ Dropped("w", pw) <=> Active(pw)
       /\ Dropped("u", pu) <=> Active(pu)
       /\ Ran("tf.nn.dropout", "w") <=> Active(pw)
       /\ Ran("tf.nn.dropout", "u") <=> Active(pu)
       /\ RowBlock(used, 0, D)
            = (IF Active(pw)
               THEN TfDropout(W, pw, cell.dropout_seed, masks[1]).val ELSE W)
       /\ RowBlock(used, D, N)
            = (IF Active(pu)
               THEN TfDropout(U, pu, cell.dropout_seed, masks[2]).val ELSE U)
       /\ Before(Where("tf.nn.dropout", "w"), Where("concat", "weights"))
       /\ Before(Where("tf.nn.dropout", "u"), Where("concat", "weights"))
       /\ Before(Where("concat", "weights"), Where("matmul", "out"))
       /\ Val("matmul", "out") = MatMul(Val("concat", "args"), used)

C9_Witness ==
  /\ Called
  /\ Active(cell.input_weight_keep_prob)
  /\ ~Active(cell.recurrent_weight_keep_prob)
  /\ Cols(inputs) = 2
  /\ RowBlock(Val("concat", "weights"), 0, 2) # RowBlock(store["kernel"], 0, 2)
  /\ RowBlock(Val("concat", "weights"), 2, cell.num_units)
       = RowBlock(store["kernel"], 2, cell.num_units)
  /\ RowBlock(store["kernel"], 0, 1) # RowBlock(store["kernel"], 2, 1)

\* C10: a call runs projection, split, gate normalization (layer_norm),
\* candidate dropout, cell update, state normalization (layer_norm), hidden
\* output, in this order.  With layer_norm the cell memory is normalized under
\* the "state" scope before new_h is computed from it, the state returned
\* holds the normalized memory, and the output is the hidden component of the
\* returned state.
C10_StepOrder ==
  Called =>
    LET gates == {k \in 1..Len(ops) :
                    ops[k].op = "norm" /\ ops[k].name # "state"}
        o == IF cell.layer_norm THEN Val("norm", "output") ELSE Val("split", "o")
    IN /\ Before(Where("matmul", "out"), Where("split", "i"))
       /\ Before(Where("split", "o"), gates)
       /\ Before(gates, Where("activation", "g"))
       /\ Before(Where("activation", "g"), Where("tf.nn.dropout", "g"))
       /\ Before(Where("tf.nn.dropout", "g"), Where("cell_update", "new_c"))
       /\ Before(Where("activation", "g"), Where("cell_update", "new_c"))
       /\ Before(Where("cell_update", "new_c"), Where("norm", "state"))
       /\ Before(Where("norm", "state"), Where("hidden", "new_h"))
       /\ Before(Where("cell_update", "new_c"), Where("hidden", "new_h"))
       /\ Ran("cell_update", "new_c") /\ Ran("hidden", "new_h")
       /\ cell.layer_norm <=> Ran("norm", "state")
       /\ cell.layer_norm <=> gates # {}
       /\ IF cell.layer_norm
          THEN /\ Val("norm", "state")
                    = norm(cell, store, Val("cell_update", "new_c"), "state")
               /\ new_state.c = Val("norm", "state")
          ELSE new_state.c = Val("cell_update", "new_c")
       /\ Val("hidden", "new_h") = Hidden(cell, new_state.c, o)
       /\ new_state.h = Val("hidden", "new_h")
       /\ new_h = new_state.h

C10_Witness ==
  /\ Called
  /\ cell.layer_norm
  /\ Val("norm", "state") # Val("cell_update", "new_c")
  /\ new_state.c = Val("norm", "state")
  /\ new_h # new_state.c

====
